---------------------------- MODULE Spec2Model ----------------------------
(***************************************************************************)
(* Model of korastats_server.py: three MCP tools (list_seasons,            *)
(* list_season_matches, get_match_events) that validate string inputs,     *)
(* issue one authenticated GET through _perform_request and turn the       *)
(* parsed JSON body into a text report.                                    *)
(*                                                                         *)
(* Text is modelled as sequences of one-character strings so that          *)
(* str.strip(), int() and str() are computed, not assumed.  JSON values    *)
(* are tagged records; dict.get on a value that is not a dict raises       *)
(* AttributeError, which the tools do not catch.                           *)
(***************************************************************************)
EXTENDS Integers, Sequences, FiniteSets, TLC

VARIABLES
    environ,      \* os.environ["KORASTATS_API_KEY"] as it is now
    startup_key,  \* the value the variable had when the process started
    LOG_LEVEL,    \* level given to logging.basicConfig at import
    pc,           \* per invocation: idle / awaiting / returned / raised / cancelled
    call,         \* per invocation: tool name and raw string arguments
    vals,         \* per invocation: values after validation and clamping
    request,      \* per invocation: query parameters of the GET it issued
    netcalls,     \* per invocation: number of GETs issued
    client,       \* per invocation: httpx.AsyncClient none / open / closed
    reply,        \* per invocation: what the transport delivered
    result,       \* per invocation: the string the tool returned
    log           \* per invocation: log records emitted to stderr

vars == <<environ, startup_key, LOG_LEVEL, pc, call, vals, request, netcalls,
          client, reply, result, log>>

---------------------------------------------------------------------------
(* Bounds of the model *)

\* concurrent invocations in SpecConcurrent
NInv == 2
\* longest record list of ordinary size (one more than the preview cap)
MaxRecords == 6

(* Program constants *)

PreviewCap == 5
DefaultPage == 1
DefaultSize == 20
DefaultLimit == 10
MinPage == 1
MinLimit == 1
MaxLimit == 50

\* a record list longer than the largest event limit
LongList == MaxLimit + 1

---------------------------------------------------------------------------
(* Text: str.strip(), int(), str() *)

Max(a, b) == IF a >= b THEN a ELSE b
Min(a, b) == IF a <= b THEN a ELSE b

Digits == <<"0", "1", "2", "3", "4", "5", "6", "7", "8", "9">>
IsDigit(c) == \E d \in 1..10 : Digits[d] = c
DigitVal(c) == (CHOOSE d \in 1..10 : Digits[d] = c) - 1

RECURSIVE LStrip(_)
LStrip(s) == IF s # <<>> /\ Head(s) = " " THEN LStrip(Tail(s)) ELSE s

RECURSIVE RStrip(_)
RStrip(s) ==
    IF s # <<>> /\ s[Len(s)] = " " THEN RStrip(SubSeq(s, 1, Len(s) - 1)) ELSE s

\* str.strip()
Strip(s) == RStrip(LStrip(s))

\* int(s) succeeds: optional sign, then one or more decimal digits
IsIntLiteral(s) ==
    LET body == IF s # <<>> /\ Head(s) \in {"+", "-"} THEN Tail(s) ELSE s
    IN  body # <<>> /\ \A j \in 1..Len(body) : IsDigit(body[j])

RECURSIVE DigitsValue(_)
DigitsValue(s) ==
    IF s = <<>> THEN 0
    ELSE 10 * DigitsValue(SubSeq(s, 1, Len(s) - 1)) + DigitVal(s[Len(s)])

\* int(s) for a literal s
IntOf(s) ==
    IF Head(s) = "-" THEN 0 - DigitsValue(Tail(s))
    ELSE IF Head(s) = "+" THEN DigitsValue(Tail(s))
    ELSE DigitsValue(s)

RECURSIVE NatToStr(_)
NatToStr(n) ==
    IF n < 10 THEN <<Digits[n + 1]>>
    ELSE NatToStr(n \div 10) \o <<Digits[(n % 10) + 1]>>

\* str(n)
IntToStr(n) == IF n < 0 THEN <<"-">> \o NatToStr(0 - n) ELSE NatToStr(n)

---------------------------------------------------------------------------
(* JSON values as the tools see them *)

Null == [t |-> "null"]
JTrue == [b |-> TRUE, t |-> "bool"]
JFalse == [b |-> FALSE, t |-> "bool"]
Str(s) == [s |-> s, t |-> "str"]
List(items) == [t |-> "list", items |-> items]
Obj(f) == [t |-> "obj", f |-> f]
EmptyObj == Obj([k \in {} |-> Null])

IsObj(v) == v.t = "obj"
IsList(v) == v.t = "list"

\* Python truthiness, as used by `not x` and `x or y`
Truthy(v) ==
    CASE v.t = "null" -> FALSE
      [] v.t = "bool" -> v.b
      [] v.t = "str"  -> v.s # ""
      [] v.t = "list" -> v.items # <<>>
      [] v.t = "obj"  -> DOMAIN v.f # {}

\* d.get(k, default) on a dict d
Get(d, k, default) == IF k \in DOMAIN d.f THEN d.f[k] ELSE default

\* the text an f-string inserts for a message value
MsgText(v) ==
    CASE v.t = "str"  -> v.s
      [] v.t = "null" -> "None"
      [] OTHER        -> "<repr>"

---------------------------------------------------------------------------
(* Returned strings.  A returned string is its category marker, its fixed   *)
(* wording and the values the f-string inserts.                             *)

ErrorMark == "[x]"
WarnMark == "[!]"
ReportMark == "[#]"

MissingKeyText == "Error: Missing Korastats API key. Set Docker secret KORASTATS_API_KEY."
DefaultApiMessage == "Korastats API returned an error."
InvalidJsonText == "Error: Received invalid JSON from Korastats."

NoResult ==
    [prefix |-> "", text |-> "", raw |-> <<>>, msg |-> "", code |-> 0,
     count |-> 0, lines |-> 0, total |-> 0, limit |-> 0]

Text(prefix, text) == [NoResult EXCEPT !.prefix = prefix, !.text = text]
Echo(text, raw) == [Text(ErrorMark, text) EXCEPT !.raw = raw]
ApiError(message) == [Text(ErrorMark, "API Error: ") EXCEPT !.msg = message]

\* what a piece of tool code ends with: a returned string or an exception
Return(res) == [res |-> res, raised |-> FALSE]
Raise == [res |-> NoResult, raised |-> TRUE]

---------------------------------------------------------------------------
(* Response bodies the upstream service can send.  A body is named by a    *)
(* shape and the length of its record list.                                *)

Item == Obj([id |-> Str("1"), name |-> Str("n")])
\* a record whose nested team / tournament field is a string, not an object
BadNestedItem == Obj([id |-> Str("1"), tournament |-> Str("t"), home |-> Str("h")])
Records(n) == [j \in 1..n |-> Item]
BadRecords(n) == [j \in 1..n |-> IF j = 1 THEN Str("x") ELSE Item]
BadNestedRecords(n) == [j \in 1..n |-> IF j = 1 THEN BadNestedItem ELSE Item]

Page(items) == Obj([Data |-> List(items), total_records |-> Str("9"), RowsCount |-> Str("9")])
Match(items) == Obj([home |-> Obj([name |-> Str("A")]), events |-> List(items)])

Body(shape, n) ==
    CASE shape = "top_list"      -> List(<<>>)
      [] shape = "top_null"      -> Null
      [] shape = "empty"         -> EmptyObj
      [] shape = "root_null"     -> Obj([root |-> Null])
      [] shape = "root_str"      -> Obj([root |-> Str("x")])
      [] shape = "n_fail"        ->
            Obj([root |-> Obj([result |-> JFalse, message |-> Str("Season not found"),
                               object |-> Page(Records(n))])])
      [] shape = "n_fail_nomsg"  -> Obj([root |-> Obj([result |-> JFalse, object |-> Null])])
      [] shape = "n_noflag"      ->
            Obj([root |-> Obj([message |-> Str("m"), object |-> Str("x")])])
      [] shape = "n_ok"          ->
            Obj([root |-> Obj([result |-> JTrue, message |-> Str("OK"),
                               object |-> Page(Records(n))])])
      [] shape = "n_ok_noobj"    -> Obj([root |-> Obj([result |-> JTrue])])
      [] shape = "n_ok_objnull"  -> Obj([root |-> Obj([result |-> JTrue, object |-> Null])])
      [] shape = "n_ok_nodata"   -> Obj([root |-> Obj([result |-> JTrue, object |-> EmptyObj])])
      [] shape = "n_ok_datanull" ->
            Obj([root |-> Obj([result |-> JTrue, object |-> Obj([Data |-> Null])])])
      [] shape = "n_ok_datastr"  ->
            Obj([root |-> Obj([result |-> JTrue, object |-> Obj([Data |-> Str("x")])])])
      [] shape = "n_ok_badentry" ->
            Obj([root |-> Obj([result |-> JTrue, object |-> Page(BadRecords(n))])])
      [] shape = "n_ok_badnested" ->
            Obj([root |-> Obj([result |-> JTrue, object |-> Page(BadNestedRecords(n))])])
      [] shape = "f_fail"        ->
            Obj([result |-> JFalse, message |-> Str("Match not found"),
                 data |-> Obj([match |-> Match(Records(n))])])
      [] shape = "f_fail_nomsg"  -> Obj([result |-> JFalse, data |-> Null])
      [] shape = "f_noflag"      -> Obj([message |-> Str("m"), data |-> Str("x")])
      [] shape = "f_ok"          ->
            Obj([result |-> JTrue, message |-> Str("OK"),
                 data |-> Obj([match |-> Match(Records(n))])])
      [] shape = "f_ok_nodata"   -> Obj([result |-> JTrue])
      [] shape = "f_ok_datanull" -> Obj([result |-> JTrue, data |-> Null])
      [] shape = "f_ok_nomatch"  -> Obj([result |-> JTrue, data |-> EmptyObj])
      [] shape = "f_ok_matchstr" -> Obj([result |-> JTrue, data |-> Obj([match |-> Str("x")])])
      [] shape = "f_ok_noevents" ->
            Obj([result |-> JTrue, data |-> Obj([match |-> Obj([home |-> Obj([name |-> Str("A")])])])])
      [] shape = "f_ok_eventsnull" ->
            Obj([result |-> JTrue,
                 data |-> Obj([match |-> Obj([home |-> Null, events |-> Null])])])
      [] shape = "f_ok_badevent" ->
            Obj([result |-> JTrue, data |-> Obj([match |-> Match(BadRecords(n))])])

\* shapes whose record list has a length that matters
SizedShapes == {"n_ok", "f_ok"}
FixedShapes ==
    {"top_list", "top_null", "empty", "root_null", "root_str", "n_fail", "n_fail_nomsg",
     "n_noflag", "n_ok_noobj", "n_ok_objnull", "n_ok_nodata", "n_ok_datanull",
     "n_ok_datastr", "n_ok_badentry", "n_ok_badnested", "f_fail", "f_fail_nomsg",
     "f_noflag", "f_ok_nodata", "f_ok_datanull", "f_ok_nomatch", "f_ok_matchstr",
     "f_ok_noevents", "f_ok_eventsnull", "f_ok_badevent"}

ListLens == (0..MaxRecords) \cup {LongList}
Bodies == (SizedShapes \X ListLens) \cup (FixedShapes \X {2})

---------------------------------------------------------------------------
(* Input validation (the code before each tool's call of _perform_request) *)

\* max(1, v)
ClampPage(v) == Max(MinPage, v)
\* the upper bound forgotten
ClampLimit_NoUpper(v) == Max(MinLimit, v)

\* max(1, min(50, v))
ClampLimit(v) == Max(MinLimit, Min(MaxLimit, v))

\* the ValueError swallowed and the default used
OptionalInt_Swallow(raw, default) ==
    IF Strip(raw) # <<>> /\ IsIntLiteral(Strip(raw))
    THEN [ok |-> TRUE, given |-> TRUE, val |-> IntOf(Strip(raw))]
    ELSE [ok |-> TRUE, given |-> FALSE, val |-> default]

\* `if raw.strip(): try: value = int(raw.strip()) except ValueError: return ...`
\* ok = FALSE stands for the ValueError branch
OptionalInt(raw, default) ==
    IF Strip(raw) = <<>> THEN [ok |-> TRUE, given |-> FALSE, val |-> default]
    ELSE IF IsIntLiteral(Strip(raw))
         THEN [ok |-> TRUE, given |-> TRUE, val |-> IntOf(Strip(raw))]
         ELSE [ok |-> FALSE, given |-> TRUE, val |-> default]

PageValue(raw) ==
    LET p == OptionalInt(raw, DefaultPage)
    IN  IF p.ok /\ p.given THEN [p EXCEPT !.val = ClampPage(p.val)] ELSE p

SizeValue(raw) ==
    LET p == OptionalInt(raw, DefaultSize)
    IN  IF p.ok /\ p.given THEN [p EXCEPT !.val = ClampPage(p.val)] ELSE p

LimitValue(raw) ==
    LET p == OptionalInt(raw, DefaultLimit)
    IN  IF p.ok /\ p.given THEN [p EXCEPT !.val = ClampLimit(p.val)] ELSE p

NoVals == [limit |-> 0, id |-> 0, page |-> 0, size |-> 0]
Invalid(res) == [v |-> NoVals, ok |-> FALSE, err |-> res]
Valid(v) == [v |-> v, ok |-> TRUE, err |-> NoResult]

\* page_number and page_size, in the order the code checks them
Paging(id, page_number, page_size) ==
    IF ~PageValue(page_number).ok
    THEN Invalid(Echo("Error: Invalid page_number value: ", page_number))
    ELSE IF ~SizeValue(page_size).ok
    THEN Invalid(Echo("Error: Invalid page_size value: ", page_size))
    ELSE Valid([limit |-> 0, id |-> id, page |-> PageValue(page_number).val,
                size |-> SizeValue(page_size).val])

validate_list_seasons(page_number, page_size) == Paging(0, page_number, page_size)

validate_list_season_matches(season_id, page_number, page_size) ==
    IF Strip(season_id) = <<>>
    THEN Invalid(Text(ErrorMark, "Error: season_id is required."))
    ELSE IF ~IsIntLiteral(Strip(season_id))
    THEN Invalid(Echo("Error: Invalid season_id value: ", season_id))
    ELSE Paging(IntOf(Strip(season_id)), page_number, page_size)

validate_get_match_events(match_id, limit) ==
    IF Strip(match_id) = <<>>
    THEN Invalid(Text(ErrorMark, "Error: match_id is required."))
    ELSE IF ~IsIntLiteral(Strip(match_id))
    THEN Invalid(Echo("Error: Invalid match_id value: ", match_id))
    ELSE IF ~LimitValue(limit).ok
    THEN Invalid(Echo("Error: Invalid limit value: ", limit))
    ELSE Valid([limit |-> LimitValue(limit).val, id |-> IntOf(Strip(match_id)),
                page |-> 0, size |-> 0])

---------------------------------------------------------------------------
(* _perform_request: key, query parameters, log records *)

\* the key used as read, without strip()
GetApiKey_NoStrip(env) == env

\* _get_api_key(): the environment variable as it is at the call, stripped
GetApiKey(env) == Strip(env)

SeasonList == <<"S","e","a","s","o","n","L","i","s","t">>
SeasonMatchList == <<"S","e","a","s","o","n","M","a","t","c","h","L","i","s","t">>
MatchEventList == <<"M","a","t","c","h","E","v","e","n","t","L","i","s","t">>

\* the query parameters: a set of <<name, value>> with every value a string
Params(api_name, api_key, extra_params) ==
    { <<"module", <<"a","p","i">> >>, <<"api", api_name>>, <<"version", <<"V","2">> >>,
      <<"response", <<"j","s","o","n">> >>, <<"lang", <<"e","n">> >>,
      <<"key", api_key>> } \cup extra_params

\* {k: v for k, v in params.items() if k != "key"}
LoggedParams(params) == { p \in params : p[1] # "key" }

PagingParams(v) ==
    { <<"page_number", IntToStr(v.page)>>, <<"page_size", IntToStr(v.size)>> }

ExtraParams(tool, v) ==
    CASE tool = "list_seasons" -> PagingParams(v)
      [] tool = "list_season_matches" ->
            { <<"season_id", IntToStr(v.id)>> } \cup PagingParams(v)
      [] tool = "get_match_events" -> { <<"match_id", IntToStr(v.id)>> }

ApiName(tool) ==
    CASE tool = "list_seasons" -> SeasonList
      [] tool = "list_season_matches" -> SeasonMatchList
      [] tool = "get_match_events" -> MatchEventList

\* numeric level of a logging level name
LevelNo(name) ==
    CASE name = "INFO" -> 20
      [] name = "WARNING" -> 30
      [] name = "ERROR" -> 40

LogRecord(logger, level, fmt, api_name, params, code, msg) ==
    [msg |-> msg, code |-> code, params |-> params, logger |-> logger,
     level |-> level, fmt |-> fmt, api |-> api_name]

\* a record reaches stderr when its level is at least the root logger's level
Emit(rec) == IF LevelNo(rec.level) >= LevelNo(LOG_LEVEL) THEN {rec} ELSE {}

CallingRecord(api_name, params) ==
    LogRecord("korastats-server", "INFO", "Calling API %s with params %s",
              api_name, LoggedParams(params), 0, "")

\* httpx logs every request it completes, at INFO on the logger "httpx", with
\* the request URL (query string included); the record propagates to the root
\* handler that logging.basicConfig installed
HttpxRecord(api_name, params, code) ==
    LogRecord("httpx", "INFO", "HTTP Request: %s %s", api_name, params, code, "")

---------------------------------------------------------------------------
(* What each tool does with the parsed body (the code after the await) *)

\* `(x.get(k) or {}).get("name")` raises when x[k] is truthy and not a dict
NestedRaises(x, k) == Truthy(Get(x, k, Null)) /\ ~IsObj(Get(x, k, Null))

\* rendering one line raises: entry.get on a non-dict, or a nested lookup
LineRaises(entry, nested) ==
    ~IsObj(entry) \/ \E k \in nested : NestedRaises(entry, k)

\* records[: min(len(records), cap)]
Preview(records, cap) == SubSeq(records, 1, Min(Len(records), cap))

\* the shared shape of list_seasons and list_season_matches after the await
NestedReport(payload, empty_text, header, nested) ==
    IF ~IsObj(payload) THEN Raise
    ELSE LET root == Get(payload, "root", EmptyObj) IN
    IF ~IsObj(root) THEN Raise
    ELSE IF ~Truthy(Get(root, "result", Null))
    THEN Return(ApiError(MsgText(Get(root, "message", Str(DefaultApiMessage)))))
    ELSE LET obj == Get(root, "object", EmptyObj) IN
    IF ~IsObj(obj) THEN Raise
    ELSE LET records == Get(obj, "Data", List(<<>>)) IN
    IF ~Truthy(records) THEN Return(Text(WarnMark, empty_text))
    ELSE IF ~IsList(records) THEN Raise
    ELSE LET preview == Preview(records.items, PreviewCap) IN
    IF \E j \in 1..Len(preview) : LineRaises(preview[j], nested) THEN Raise
    ELSE Return([Text(ReportMark, header) EXCEPT
                    !.count = Len(records.items),
                    !.lines = Len(preview),
                    !.msg = MsgText(Get(root, "message", Str("Success")))])

list_seasons_report(payload) ==
    NestedReport(payload, "No seasons found for the requested page.",
                 "Seasons Overview: Records on page", {"tournament"})

list_season_matches_report(payload) ==
    NestedReport(payload, "No matches found for the supplied season.",
                 "Match Overview: Matches on page", {"home", "away", "status"})

get_match_events_report(payload, v) ==
    IF ~IsObj(payload) THEN Raise
    ELSE IF ~Truthy(Get(payload, "result", Null))
    THEN Return(ApiError(MsgText(Get(payload, "message", Str(DefaultApiMessage)))))
    ELSE LET data == Get(payload, "data", EmptyObj) IN
    IF ~IsObj(data) THEN Raise
    ELSE LET match == Get(data, "match", Null) IN
    IF ~Truthy(match)
    THEN Return(Text(WarnMark, "No match details returned for the given match_id."))
    ELSE IF ~IsObj(match) THEN Raise
    ELSE IF \E k \in {"home", "away", "status"} : NestedRaises(match, k) THEN Raise
    ELSE LET events == Get(match, "events", List(<<>>)) IN
    IF ~Truthy(events)
    THEN Return([Text(WarnMark, "No events available for match ") EXCEPT
                    !.raw = IntToStr(v.id)])
    ELSE IF ~IsList(events) THEN Raise
    ELSE LET preview == Preview(events.items, v.limit) IN
    IF \E j \in 1..Len(preview) : LineRaises(preview[j], {}) THEN Raise
    ELSE Return([Text(ReportMark, "Match Events: Showing first") EXCEPT
                    !.count = Len(preview),
                    !.lines = Len(preview),
                    !.total = Len(events.items),
                    !.limit = v.limit,
                    !.msg = MsgText(Get(payload, "message", Str("Success")))])

ToolReport(tool, payload, v) ==
    CASE tool = "list_seasons" -> list_seasons_report(payload)
      [] tool = "list_season_matches" -> list_season_matches_report(payload)
      [] tool = "get_match_events" -> get_match_events_report(payload, v)

---------------------------------------------------------------------------
(* State *)

Invocations == 1..NInv

\* env: the environment variable as it was when the tool was invoked
NoCall == [limit |-> <<>>, id |-> <<>>, page_number |-> <<>>, page_size |-> <<>>,
           env |-> <<>>, tool |-> ""]
NoReply == [n |-> 0, msg |-> "", code |-> 0, shape |-> "", kind |-> "none"]

Keys == { <<>>, <<" ">>, <<"K","1">>, <<" ","K","2"," ">> }
Levels == {"WARNING", "INFO"}

\* raw tool arguments: omitted, blank, not a number, below 1, padded, above 50
RawInputs ==
    { <<>>, <<" ">>, <<"a","b","c">>, <<"0">>, <<"-","3">>, <<" ","2"," ">>,
      <<"1","0","0">> }

StatusCodes == {404, 500}
TransportMessages == {"All connection attempts failed", ""}

Init ==
    /\ environ \in Keys
    /\ startup_key = environ
    /\ LOG_LEVEL \in Levels
    /\ pc = [i \in Invocations |-> "idle"]
    /\ call = [i \in Invocations |-> NoCall]
    /\ vals = [i \in Invocations |-> NoVals]
    /\ request = [i \in Invocations |-> {}]
    /\ netcalls = [i \in Invocations |-> 0]
    /\ client = [i \in Invocations |-> "none"]
    /\ reply = [i \in Invocations |-> NoReply]
    /\ result = [i \in Invocations |-> NoResult]
    /\ log = [i \in Invocations |-> {}]

---------------------------------------------------------------------------
(* Actions *)

\* a client closed by hand after the GET, which a cancellation skips
ClientOnExit_LeakOnCancel(how) == IF how = "cancelled" THEN "open" ELSE "closed"

\* `async with httpx.AsyncClient(...)`: __aexit__ runs however the block is left
ClientOnExit(how) == "closed"

\* The synchronous part of a tool: validation, then _perform_request up to
\* `await client.get(...)`.  c is the call, checked its validation.
Begin(i, c, checked) ==
    LET api_key == GetApiKey(environ)
        api_name == ApiName(c.tool)
        params == Params(api_name, api_key, ExtraParams(c.tool, checked.v))
    IN  /\ pc[i] = "idle"
        /\ call' = [call EXCEPT ![i] = [c EXCEPT !.env = environ]]
        /\ vals' = [vals EXCEPT ![i] = checked.v]
        /\ IF ~checked.ok
           THEN /\ pc' = [pc EXCEPT ![i] = "returned"]
                /\ result' = [result EXCEPT ![i] = checked.err]
                /\ UNCHANGED <<request, netcalls, client, log>>
           ELSE IF api_key = <<>>
           THEN /\ pc' = [pc EXCEPT ![i] = "returned"]
                /\ result' = [result EXCEPT ![i] = Text(ErrorMark, MissingKeyText)]
                /\ UNCHANGED <<request, netcalls, client, log>>
           ELSE /\ pc' = [pc EXCEPT ![i] = "awaiting"]
                /\ request' = [request EXCEPT ![i] = params]
                /\ netcalls' = [netcalls EXCEPT ![i] = @ + 1]
                /\ client' = [client EXCEPT ![i] = "open"]
                /\ log' = [log EXCEPT ![i] = @ \cup Emit(CallingRecord(api_name, params))]
                /\ UNCHANGED result
        /\ UNCHANGED <<environ, startup_key, LOG_LEVEL, reply>>

list_seasons(i, page_number, page_size) ==
    Begin(i, [NoCall EXCEPT !.tool = "list_seasons", !.page_number = page_number,
                            !.page_size = page_size],
          validate_list_seasons(page_number, page_size))

list_season_matches(i, season_id, page_number, page_size) ==
    Begin(i, [NoCall EXCEPT !.tool = "list_season_matches", !.id = season_id,
                            !.page_number = page_number, !.page_size = page_size],
          validate_list_season_matches(season_id, page_number, page_size))

get_match_events(i, match_id, limit) ==
    Begin(i, [NoCall EXCEPT !.tool = "get_match_events", !.id = match_id,
                            !.limit = limit],
          validate_get_match_events(match_id, limit))

\* The rest of the invocation once the awaited GET is over: the client is
\* released, the records are logged and the tool ends with `outcome`.
Finish(i, r, records, outcome) ==
    /\ pc[i] = "awaiting"
    /\ reply' = [reply EXCEPT ![i] = r]
    /\ client' = [client EXCEPT ![i] = ClientOnExit(r.kind)]
    /\ log' = [log EXCEPT ![i] = @ \cup records]
    /\ pc' = [pc EXCEPT ![i] = IF outcome.raised THEN "raised" ELSE "returned"]
    /\ result' = [result EXCEPT ![i] = outcome.res]
    /\ UNCHANGED <<environ, startup_key, LOG_LEVEL, call, vals, request, netcalls>>

\* raise_for_status() raises httpx.HTTPStatusError
HTTPStatusError(i, code) ==
    Finish(i, [NoReply EXCEPT !.kind = "status", !.code = code],
           Emit(HttpxRecord(ApiName(call[i].tool), request[i], code))
           \cup Emit(LogRecord("korastats-server", "ERROR", "Korastats API returned %s for %s",
                               ApiName(call[i].tool), {}, code, "")),
           Return([Text(ErrorMark, "API Error: ") EXCEPT !.code = code]))

\* any other exception of the GET: connection failure, timeout
TransportError(i, msg) ==
    Finish(i, [NoReply EXCEPT !.kind = "transport", !.msg = msg],
           Emit(LogRecord("korastats-server", "ERROR", "Korastats request failed for %s: %s",
                          ApiName(call[i].tool), {}, 0, msg)),
           Return([Text(ErrorMark, "Error: ") EXCEPT !.msg = msg]))

\* response.json() raises ValueError
InvalidJSON(i) ==
    Finish(i, [NoReply EXCEPT !.kind = "invalid_json", !.code = 200],
           Emit(HttpxRecord(ApiName(call[i].tool), request[i], 200))
           \cup Emit(LogRecord("korastats-server", "ERROR", "Korastats JSON parse error for %s: %s",
                               ApiName(call[i].tool), {}, 0, "Expecting value")),
           Return(Text(ErrorMark, InvalidJsonText)))

\* a 2xx response with a JSON body: the tool unwraps and formats it
JSONResponse(i, shape, n) ==
    Finish(i, [NoReply EXCEPT !.kind = "json", !.shape = shape, !.n = n, !.code = 200],
           Emit(HttpxRecord(ApiName(call[i].tool), request[i], 200)),
           ToolReport(call[i].tool, Body(shape, n), vals[i]))

\* the host runtime cancels the task at the await: CancelledError leaves the
\* `async with` block and is not caught by `except Exception`
Cancelled(i) ==
    /\ pc[i] = "awaiting"
    /\ pc' = [pc EXCEPT ![i] = "cancelled"]
    /\ reply' = [reply EXCEPT ![i] = [NoReply EXCEPT !.kind = "cancelled"]]
    /\ client' = [client EXCEPT ![i] = ClientOnExit("cancelled")]
    /\ UNCHANGED <<environ, startup_key, LOG_LEVEL, call, vals, request, netcalls,
                   result, log>>

\* the invocation is over and its per-call values are discarded
Discard(i) ==
    /\ pc[i] \in {"returned", "raised", "cancelled"}
    /\ pc' = [pc EXCEPT ![i] = "idle"]
    /\ call' = [call EXCEPT ![i] = NoCall]
    /\ vals' = [vals EXCEPT ![i] = NoVals]
    /\ request' = [request EXCEPT ![i] = {}]
    /\ netcalls' = [netcalls EXCEPT ![i] = 0]
    /\ client' = [client EXCEPT ![i] = "none"]
    /\ reply' = [reply EXCEPT ![i] = NoReply]
    /\ result' = [result EXCEPT ![i] = NoResult]
    /\ log' = [log EXCEPT ![i] = {}]
    /\ UNCHANGED <<environ, startup_key, LOG_LEVEL>>

\* the environment variable is changed while the process runs
SetEnviron(k) ==
    /\ k # environ
    /\ environ' = k
    /\ UNCHANGED <<startup_key, LOG_LEVEL, pc, call, vals, request, netcalls, client,
                   reply, result, log>>

---------------------------------------------------------------------------
(* Specifications *)

\* one invocation at a time, every input and every response, the environment
\* as it was at start
Next ==
    \/ \E a, b \in RawInputs : list_seasons(1, a, b)
    \/ \E a, b, c \in RawInputs : list_season_matches(1, a, b, c)
    \/ \E a, b \in RawInputs : get_match_events(1, a, b)
    \/ \E code \in StatusCodes : HTTPStatusError(1, code)
    \/ \E msg \in TransportMessages : TransportError(1, msg)
    \/ InvalidJSON(1)
    \/ \E b \in Bodies : JSONResponse(1, b[1], b[2])
    \/ Cancelled(1)
    \/ Discard(1)

Spec == Init /\ [][Next]_vars

\* several invocations in flight at once and an environment that changes,
\* over few inputs and responses
KeysConcurrent == { <<>>, <<"K","1">>, <<" ","K","2"," ">> }
IdConcurrent == <<" ","2"," ">>

InitConcurrent == Init /\ environ \in KeysConcurrent /\ LOG_LEVEL = "INFO"

NextConcurrent ==
    \E i \in Invocations :
        \/ list_seasons(i, <<>>, <<>>)
        \/ get_match_events(i, IdConcurrent, <<>>)
        \/ HTTPStatusError(i, 404)
        \/ TransportError(i, "")
        \/ InvalidJSON(i)
        \/ JSONResponse(i, "n_ok", 1)
        \/ Cancelled(i)
        \/ Discard(i)
        \/ \E k \in KeysConcurrent : SetEnviron(k)

SpecConcurrent == InitConcurrent /\ [][NextConcurrent]_vars

---------------------------------------------------------------------------
(* Vocabulary of the properties *)

\* empty or whitespace-only
Blank(s) == \A j \in 1..Len(s) : s[j] = " "

\* supplied and not integer-parsable
NotParsable(raw) == ~Blank(raw) /\ ~IsIntLiteral(Strip(raw))

\* a mandatory identifier that is empty or not integer-parsable, or a supplied
\* page_number, page_size or limit that is not integer-parsable
InputInvalid(c) ==
    CASE c.tool = "list_seasons" ->
            NotParsable(c.page_number) \/ NotParsable(c.page_size)
      [] c.tool = "list_season_matches" ->
            Blank(c.id) \/ NotParsable(c.id) \/ NotParsable(c.page_number)
            \/ NotParsable(c.page_size)
      [] c.tool = "get_match_events" ->
            Blank(c.id) \/ NotParsable(c.id) \/ NotParsable(c.limit)
      [] OTHER -> FALSE

MissingKeyError == Text(ErrorMark, MissingKeyText)

\* the value at a field path of a JSON body, when every step is an object field
RECURSIVE At(_, _)
At(v, path) ==
    IF path = <<>> THEN [v |-> v, found |-> TRUE]
    ELSE IF IsObj(v) /\ Head(path) \in DOMAIN v.f
         THEN At(v.f[Head(path)], Tail(path))
         ELSE [v |-> Null, found |-> FALSE]

EnvelopePath(tool) == IF tool = "get_match_events" THEN <<>> ELSE <<"root">>
RecordsPath(tool) ==
    IF tool = "get_match_events" THEN <<"data", "match", "events">>
    ELSE <<"root", "object", "Data">>

FlagOf(tool, body) == At(body, EnvelopePath(tool) \o <<"result">>)
FlagTrue(tool, body) ==
    FlagOf(tool, body).found /\ FlagOf(tool, body).v.t = "bool" /\ FlagOf(tool, body).v.b
FlagFalseOrAbsent(tool, body) ==
    \/ ~FlagOf(tool, body).found
    \/ FlagOf(tool, body).v.t = "bool" /\ ~FlagOf(tool, body).v.b

EnvelopeMessage(tool, body) ==
    LET m == At(body, EnvelopePath(tool) \o <<"message">>)
    IN  IF m.found THEN MsgText(m.v) ELSE DefaultApiMessage

RecordsEmptyOrMissing(tool, body) ==
    LET r == At(body, RecordsPath(tool))
    IN  ~r.found \/ (r.v.t = "list" /\ r.v.items = <<>>)

BodyOf(i) == Body(reply[i].shape, reply[i].n)
GotJson(i) == reply[i].kind = "json"

\* the bound a value is brought to
Bounded(v, lo, hi) == IF v < lo THEN lo ELSE IF v > hi THEN hi ELSE v
AtLeast(v, lo) == IF v < lo THEN lo ELSE v

---------------------------------------------------------------------------
(* Properties *)

\* C1: whatever the parsed JSON body is, an invocation ends by returning a
\* string: no exception escapes a tool.
C1_NoExceptionEscapes == \A i \in Invocations : pc[i] # "raised"

\* C2 as stated: with an empty or whitespace-only key every invocation, whatever
\* its input, returns the missing-key error and issues no network call.
C2_MissingKeyForEveryInput ==
    \A i \in Invocations :
        (pc[i] # "idle" /\ Blank(call[i].env)) =>
            /\ pc[i] = "returned"
            /\ result[i] = MissingKeyError
            /\ netcalls[i] = 0

\* C2 amended: with an empty or whitespace-only key no invocation issues a
\* network call; an invocation whose input passes validation returns the
\* missing-key error, and one whose input is invalid returns its validation
\* error instead.
C2_MissingKeyAfterValidation ==
    \A i \in Invocations :
        (pc[i] # "idle" /\ Blank(call[i].env)) =>
            /\ pc[i] = "returned"
            /\ netcalls[i] = 0
            /\ request[i] = {}
            /\ client[i] = "none"
            /\ result[i].prefix = ErrorMark
            /\ (result[i] = MissingKeyError) <=> ~InputInvalid(call[i])

C2_Witness ==
    \E i \in Invocations :
        /\ pc[i] = "returned"
        /\ call[i].tool = "get_match_events"
        /\ call[i].env = <<" ">>
        /\ ~InputInvalid(call[i])
        /\ result[i] = MissingKeyError

\* C3: in every success report the count shown in the header equals the number
\* of record lines rendered.
C3_HeaderCountIsPreviewLength ==
    \A i \in Invocations :
        result[i].prefix = ReportMark => result[i].count = result[i].lines

\* C4: the secret key appears in no emitted log record and in no returned
\* string.
C4_KeyNeverEmitted ==
    \A i \in Invocations :
        LET key == GetApiKey(call[i].env)
        IN  key # <<>> =>
                /\ \A rec \in log[i] : \A p \in rec.params : p[2] # key
                /\ result[i].raw # key

\* C5: an invocation whose input is invalid returns an error string and issues
\* no network call.
C5_ValidationPrecedesRequest ==
    \A i \in Invocations :
        (pc[i] # "idle" /\ InputInvalid(call[i])) =>
            /\ pc[i] = "returned"
            /\ result[i].prefix = ErrorMark
            /\ netcalls[i] = 0
            /\ request[i] = {}
            /\ client[i] = "none"

C5_Witness ==
    \E i \in Invocations :
        /\ pc[i] = "returned"
        /\ ~Blank(call[i].env)
        /\ call[i].tool = "list_season_matches"
        /\ call[i].id = <<"a","b","c">>
        /\ result[i] = Echo("Error: Invalid season_id value: ", <<"a","b","c">>)
        /\ netcalls[i] = 0

\* C6: when the body is JSON and the envelope success flag is false or absent,
\* the tool returns the API error with the envelope message (or the default
\* message), whatever the payload subtree holds.
C6_FlagFalseGivesApiError ==
    \A i \in Invocations :
        (GotJson(i) /\ FlagFalseOrAbsent(call[i].tool, BodyOf(i))) =>
            /\ pc[i] = "returned"
            /\ result[i] = ApiError(EnvelopeMessage(call[i].tool, BodyOf(i)))

\* C7: the page_number and page_size sent are max(1, value), 1 and 20 when
\* omitted; the limit used for truncation is within [1, 50], 10 when omitted.
C7_ParametersWithinBounds ==
    \A i \in Invocations :
        (pc[i] # "idle" /\ ~InputInvalid(call[i])) =>
            LET c == call[i]
                page == IF Blank(c.page_number) THEN DefaultPage
                        ELSE AtLeast(IntOf(Strip(c.page_number)), 1)
                size == IF Blank(c.page_size) THEN DefaultSize
                        ELSE AtLeast(IntOf(Strip(c.page_size)), 1)
                limit == IF Blank(c.limit) THEN DefaultLimit
                         ELSE Bounded(IntOf(Strip(c.limit)), 1, MaxLimit)
            IN  /\ (c.tool # "get_match_events" /\ netcalls[i] > 0) =>
                    /\ <<"page_number", IntToStr(page)>> \in request[i]
                    /\ <<"page_size", IntToStr(size)>> \in request[i]
                    /\ \A p \in request[i] :
                          p[1] \in {"page_number", "page_size"} =>
                              IsIntLiteral(p[2]) /\ IntOf(p[2]) >= 1
                /\ c.tool = "get_match_events" =>
                    /\ vals[i].limit = limit
                    /\ result[i].prefix = ReportMark =>
                          /\ result[i].limit = limit
                          /\ result[i].lines = Min(result[i].total, limit)

C7_Witness ==
    \E i \in Invocations :
        /\ call[i].tool = "get_match_events"
        /\ call[i].limit = <<"1","0","0">>
        /\ result[i].prefix = ReportMark
        /\ result[i].total = LongList
        /\ result[i].lines = MaxLimit

\* C8: when the body is JSON, the success flag is true and the record list is
\* empty or missing, the tool returns the zero-records warning.
C8_EmptyListGivesWarning ==
    \A i \in Invocations :
        (/\ GotJson(i)
         /\ FlagTrue(call[i].tool, BodyOf(i))
         /\ RecordsEmptyOrMissing(call[i].tool, BodyOf(i))) =>
            /\ pc[i] = "returned"
            /\ result[i].prefix = WarnMark

\* C9: an invocation that has returned, raised or been cancelled holds no open
\* client; a client is open only while its invocation awaits the GET.
C9_ClientReleased ==
    \A i \in Invocations : client[i] = "open" <=> pc[i] = "awaiting"

C9_Witness ==
    \E i, j \in Invocations :
        /\ i # j
        /\ pc[i] = "cancelled" /\ client[i] = "closed"
        /\ pc[j] = "awaiting" /\ client[j] = "open"

\* C10: every invocation uses the key the process started with: it is the
\* `key` parameter of every request sent, and the missing-key error is
\* returned exactly when that key is blank.
C10_KeyLoadedOnce ==
    \A i \in Invocations :
        /\ netcalls[i] > 0 =>
              /\ ~Blank(startup_key)
              /\ <<"key", Strip(startup_key)>> \in request[i]
        /\ result[i] = MissingKeyError => Blank(startup_key)

=============================================================================
